---- MODULE Spec2Model ----
(***************************************************************************)
(* Randomised k-d forest of fastann (src/nn_kdtree.hpp): construction of   *)
(* the trees over one shared permutation array, and the best-bin-first     *)
(* search with a global frontier queue.                                    *)
(*                                                                         *)
(* Point identifiers are 0..N_-1 as in the code.  Coordinates are small    *)
(* naturals.  DiscFloat values (thresholds, frontier bounds) are kept as   *)
(* exact non-negative rationals <<num, den>> in lowest terms; DistFloat    *)
(* values (squared distances) are exact integers.                          *)
(***************************************************************************)
EXTENDS Integers, Sequences, FiniteSets, TLC

VARIABLES
    pnts,        \* pnts_ : the caller's point array, id -> (dim -> value)
    N_,          \* N_
    ntrees,      \* constructor argument ntrees
    inds,        \* the constructor's permutation array `inds`, position -> id
    nodes,       \* the heap: node address -> node record
    trees_,      \* trees_ : sequence of root addresses
    stack,       \* pending kdtree_node constructor calls (node, lo, n)
    pc,          \* "build" | "built" | "drain" | "done" | "fault"
    qu,          \* search argument qu
    numnn,       \* search argument numnn
    budget,      \* search argument nchecks as passed by the caller
    nchecks,     \* local nchecks after line 271
    pri_branch,  \* the frontier priority queue (sequence of entries)
    nns,         \* candidate list, sequence of [id, dsq]
    seen,        \* seen bitmap, id -> BOOLEAN
    ret_nns,     \* output array written by line 293
    hist,        \* every entry pushed during the current call
    npops,       \* number of drain-loop iterations of the current call
    prev         \* the previous completed call on this index, or NoCall

vars == <<pnts, N_, ntrees, inds, nodes, trees_, stack, pc, qu, numnn, budget,
          nchecks, pri_branch, nns, seen, ret_nns, hist, npops, prev>>

buildVars == <<pnts, N_, ntrees>>
searchVars == <<qu, numnn, budget, nchecks, pri_branch, nns, seen, ret_nns,
                hist, npops, prev>>

----------------------------------------------------------------------------
(* Program constants *)
leaf_max_points == 14
varest_max_points == 128
varest_max_randsz == 5

(* Bounds of the model *)
MaxN == 16
MaxTrees == 2
MaxK == 2
MaxChecks == 3

(* Input domains *)
Dims == {0, 1}
Vals == {0, 1}
D_ == Cardinality(Dims)

NSet == {1} \cup (leaf_max_points..MaxN)
BudgetSet(n) == (1..MaxChecks) \cup {n, n + 1}

Min(a, b) == IF a < b THEN a ELSE b
Max(a, b) == IF a < b THEN b ELSE a

NoCall == [budget |-> 0, top1 |-> 0, valid |-> FALSE]

----------------------------------------------------------------------------
(* Exact rationals for DiscFloat *)
RECURSIVE Gcd(_, _)
Gcd(a, b) == IF b = 0 THEN a ELSE Gcd(b, a % b)

Rat(n, d) == LET g == Gcd(n, d) IN <<n \div g, d \div g>>

RatAdd(x, y) ==
    LET g == Gcd(x[2], y[2])
        m == (x[2] \div g) * y[2]
    IN  Rat(x[1] * (m \div x[2]) + y[1] * (m \div y[2]), m)

RECURSIVE FracLess(_, _, _, _)
FracLess(a, b, c, d) ==
    LET qa == a \div b
        qc == c \div d
        ra == a % b
        rc == c % d
    IN  IF qa # qc THEN qa < qc
        ELSE IF rc = 0 THEN FALSE
        ELSE IF ra = 0 THEN TRUE
        ELSE FracLess(d, rc, b, ra)

RatLess(x, y) == FracLess(x[1], x[2], y[1], y[2])

----------------------------------------------------------------------------
(* Inputs *)
\* Point d carries the value h[d] along dimension d; every other coordinate is 0.
Dataset(n, h) == [i \in 0..(n - 1) |-> [d \in Dims |-> IF i = d THEN h[d] ELSE 0]]

Queries == [Dims -> Vals]

\* dist_l2 : squared Euclidean distance of the query to point id
RECURSIVE SqSum(_, _, _)
SqSum(q, p, ds) ==
    IF ds = {} THEN 0
    ELSE LET d == CHOOSE x \in ds : TRUE
         IN  (q[d] - p[d]) * (q[d] - p[d]) + SqSum(q, p, ds \ {d})

Dist(q, id) == SqSum(q, pnts[id], Dims)

----------------------------------------------------------------------------
(* kdtree_node : construction *)
RawNode == [kind |-> "raw", left |-> 0, right |-> 0, disc_dim |-> 0,
            disc |-> <<0, 1>>, indices |-> <<>>]

LeafNode(ix, lo, n) ==
    [kind |-> "leaf", left |-> 0, right |-> 0, disc_dim |-> 0,
     disc |-> <<0, 1>>, indices |-> [j \in 1..n |-> ix[lo + j - 1]]]

InternalNode(l, r, dim, thr) ==
    [kind |-> "internal", left |-> l, right |-> r, disc_dim |-> dim,
     disc |-> thr, indices |-> <<>>]

\* sum_x[d] (sq = FALSE) and sum_xx[d] (sq = TRUE) over the first cnt points
RECURSIVE SumOver(_, _, _, _, _)
SumOver(ix, lo, cnt, d, sq) ==
    IF cnt = 0 THEN 0
    ELSE LET v == pnts[ix[lo + cnt - 1]][d]
         IN  (IF sq THEN v * v ELSE v) + SumOver(ix, lo, cnt - 1, d, sq)

\* var_dim[d].first
VarOf(ix, lo, cnt, d) ==
    IF cnt <= 1 THEN <<0, 1>>
    ELSE LET sx  == SumOver(ix, lo, cnt, d, FALSE)
             sxx == SumOver(ix, lo, cnt, d, TRUE)
         IN  Rat(cnt * sxx - sx * sx, cnt * (cnt - 1))

\* std::greater on pair<DiscFloat, unsigned>
PairGreater(v1, d1, v2, d2) == RatLess(v2, v1) \/ (v1 = v2 /\ d1 > d2)

\* choose_split, with rnd the value returned by rk_interval(nrand-1, state)
ChooseSplit(ix, lo, n, rnd) ==
    LET cnt == Min(n, varest_max_points)
        var(d) == VarOf(ix, lo, cnt, d)
        above(d) == {e \in Dims : PairGreater(var(e), e, var(d), d)}
        randd == CHOOSE d \in Dims : Cardinality(above(d)) = rnd
    IN  [dim |-> randd, disc |-> Rat(SumOver(ix, lo, cnt, randd, FALSE), cnt)]

NRand == Min(varest_max_randsz, D_)

\* std::swap(inds[l], inds[r]) with a lost write, for comparison
OverwriteInds(ix, i, j) == [ix EXCEPT ![i] = ix[j]]

\* std::swap(inds[l], inds[r])
SwapInds(ix, i, j) == [ix EXCEPT ![i] = ix[j], ![j] = ix[i]]

\* the partition scan of split_points over inds[lo .. lo+n-1]
RECURSIVE PartitionScan(_, _, _, _, _, _)
PartitionScan(ix, l, r, lo, dim, thr) ==
    IF l = r THEN [inds |-> ix, l |-> l]
    ELSE IF RatLess(<<pnts[ix[lo + l]][dim], 1>>, thr)
         THEN PartitionScan(ix, l + 1, r, lo, dim, thr)
         ELSE PartitionScan(SwapInds(ix, lo + l, lo + r - 1), l, r - 1, lo, dim, thr)

\* a split that always cuts at the middle, for comparison
AlwaysMedianL(l, n) == n \div 2

\* if (l==0 || l==N) { l = N/2; }
SplitL(l, n) == IF l = 0 \/ l = n THEN n \div 2 ELSE l

Top == stack[Len(stack)]
Pop(s) == SubSeq(s, 1, Len(s) - 1)

\* nn_kdtree constructor, one iteration of the tree loop: new node_type(...)
NewTree ==
    /\ pc = "build"
    /\ stack = <<>>
    /\ Len(trees_) < ntrees
    /\ nodes' = Append(nodes, RawNode)
    /\ trees_' = Append(trees_, Len(nodes) + 1)
    /\ stack' = <<[node |-> Len(nodes) + 1, lo |-> 0, n |-> N_]>>
    /\ UNCHANGED <<inds, pc>>
    /\ UNCHANGED buildVars
    /\ UNCHANGED searchVars

\* kdtree_node constructor, leaf branch
ConstructLeaf ==
    /\ pc = "build"
    /\ stack # <<>>
    /\ Top.n <= leaf_max_points
    /\ nodes' = [nodes EXCEPT ![Top.node] = LeafNode(inds, Top.lo, Top.n)]
    /\ stack' = Pop(stack)
    /\ UNCHANGED <<inds, trees_, pc>>
    /\ UNCHANGED buildVars
    /\ UNCHANGED searchVars

\* kdtree_node constructor, internal branch: split_points
SplitPoints ==
    /\ pc = "build"
    /\ stack # <<>>
    /\ Top.n > leaf_max_points
    /\ \E rnd \in 0..(NRand - 1) :
        LET spl  == ChooseSplit(inds, Top.lo, Top.n, rnd)
            scan == PartitionScan(inds, 0, Top.n, Top.lo, spl.dim, spl.disc)
            l    == SplitL(scan.l, Top.n)
            la   == Len(nodes) + 1
            ra   == Len(nodes) + 2
        IN  /\ inds' = scan.inds
            /\ nodes' = Append(Append(
                    [nodes EXCEPT ![Top.node] = InternalNode(la, ra, spl.dim, spl.disc)],
                    RawNode), RawNode)
            /\ stack' = Pop(stack) \o
                    <<[node |-> ra, lo |-> Top.lo + l, n |-> Top.n - l],
                      [node |-> la, lo |-> Top.lo, n |-> l]>>
    /\ UNCHANGED <<trees_, pc>>
    /\ UNCHANGED buildVars
    /\ UNCHANGED searchVars

\* the constructor returns
BuildDone ==
    /\ pc = "build"
    /\ stack = <<>>
    /\ Len(trees_) = ntrees
    /\ pc' = "built"
    /\ UNCHANGED <<inds, nodes, trees_, stack>>
    /\ UNCHANGED buildVars
    /\ UNCHANGED searchVars

----------------------------------------------------------------------------
(* kdtree_node::search *)
Entry(b, n) == [bound |-> b, node |-> n]

\* diff*diff for diff = qu[disc_dim_] - disc_
DiffSq(v, thr) ==
    LET m == v * thr[2] - thr[1]
    IN  Rat(m * m, thr[2] * thr[2])

\* the descent loop, lines 189-203: returns the leaf reached and the queue
RECURSIVE Descend(_, _, _, _)
Descend(cur, mindsq, q, pb) ==
    IF nodes[cur].kind # "internal" THEN [leaf |-> cur, pri |-> pb]
    ELSE LET nd     == nodes[cur]
             neg    == RatLess(<<q[nd.disc_dim], 1>>, nd.disc)
             follow == IF neg THEN nd.left ELSE nd.right
             other  == IF neg THEN nd.right ELSE nd.left
             pushed == Entry(RatAdd(mindsq, DiffSq(q[nd.disc_dim], nd.disc)), other)
         IN  Descend(follow, mindsq, q, Append(pb, pushed))

\* lines 212-218, one iteration of the loop over all but the last index
ScoreMarked(id, q, acc) ==
    IF acc.seen[id] THEN acc
    ELSE [nns  |-> Append(acc.nns, [id |-> id, dsq |-> Dist(q, id)]),
          seen |-> [acc.seen EXCEPT ![id] = TRUE]]

\* the trailing element left out, for comparison
SkipLast(id, q, acc) == acc

\* lines 220-224, the last index of the leaf
ScoreLast(id, q, acc) ==
    IF acc.seen[id] THEN acc
    ELSE [nns  |-> Append(acc.nns, [id |-> id, dsq |-> Dist(q, id)]),
          seen |-> acc.seen]

RECURSIVE ScoreLoop(_, _, _, _)
ScoreLoop(ix, i, q, acc) ==
    IF i >= Len(ix) THEN acc
    ELSE ScoreLoop(ix, i + 1, q, ScoreMarked(ix[i], q, acc))

\* lines 205-224 (a leaf of a built tree holds at least one index)
ScoreLeaf(ix, q, acc) ==
    LET a == ScoreLoop(ix, 1, q, acc)
    IN  ScoreLast(ix[Len(ix)], q, a)

\* kdtree_node::search as a whole, on the search state st
NodeSearch(start, mindsq, q, st) ==
    LET dsc == Descend(start, mindsq, q, st.pri)
        sc  == ScoreLeaf(nodes[dsc.leaf].indices, q, [nns |-> st.nns, seen |-> st.seen])
    IN  [pri  |-> dsc.pri,
         nns  |-> sc.nns,
         seen |-> sc.seen,
         hist |-> st.hist \cup {dsc.pri[j] : j \in (Len(st.pri) + 1)..Len(dsc.pri)}]

----------------------------------------------------------------------------
(* nn_kdtree::search *)
\* std::greater on the queue's pairs: the top is the least (bound, address).
\* Node addresses are ordered as the nodes were allocated.
EntryLess(e, f) == RatLess(e.bound, f.bound) \/ (e.bound = f.bound /\ e.node < f.node)

TopIndex(pb) == CHOOSE i \in 1..Len(pb) :
    /\ \A j \in 1..Len(pb) : ~EntryLess(pb[j], pb[i])
    /\ \A j \in 1..(i - 1) : pb[j] # pb[i]

RemoveAt(s, i) == SubSeq(s, 1, i - 1) \o SubSeq(s, i + 1, Len(s))

\* a comparator with the order reversed, for comparison
CmpGreater(l, r) == l.dsq > r.dsq

\* second_cmp_functor
Cmp(l, r) == l.dsq < r.dsq

RECURSIVE SelectSort(_, _, _)
SelectSort(rest, k, out) ==
    IF k = 0 \/ rest = <<>> THEN out \o rest
    ELSE LET i == CHOOSE x \in 1..Len(rest) :
                    /\ \A j \in 1..Len(rest) : ~Cmp(rest[j], rest[x])
                    /\ \A j \in 1..(x - 1) : Cmp(rest[x], rest[j])
         IN  SelectSort(RemoveAt(rest, i), k - 1, Append(out, rest[i]))

\* the candidate list left as it is, for comparison
NoSort(nn, k) == nn

\* std::partial_sort(nns.begin(), nns.begin() + numnn, nns.end(), cmp)
PartialSort(nn, k) == SelectSort(nn, k, <<>>)

\* a loop test against the number of points, for comparison
ContinueToN(sz, nc) == sz < N_

\* while (nns.size() < nchecks)
Continue(sz, nc) == sz < nc

\* lines 278-280: search each tree once
RECURSIVE InitialDescents(_, _, _)
InitialDescents(t, q, st) ==
    IF t > Len(trees_) THEN st
    ELSE InitialDescents(t + 1, q, NodeSearch(trees_[t], <<0, 1>>, q, st))

EmptySearch == [pri |-> <<>>, nns |-> <<>>, hist |-> {},
                seen |-> [i \in 0..(N_ - 1) |-> FALSE]]

\* the loop test of line 284 on the search state st and, once it fails,
\* lines 291-293.  partial_sort with numnn past the end of nns is undefined;
\* the loop never leaves fewer than nchecks >= numnn candidates.
LoopTestOrReturn(st, k, nc) ==
    /\ pri_branch' = st.pri
    /\ nns' = st.nns
    /\ seen' = st.seen
    /\ hist' = st.hist
    /\ IF Continue(Len(st.nns), nc)
       THEN /\ pc' = "drain"
            /\ ret_nns' = <<>>
       ELSE IF k <= Len(st.nns)
       THEN /\ pc' = "done"
            /\ ret_nns' = SubSeq(PartialSort(st.nns, k), 1, Min(k, nc))
       ELSE /\ pc' = "fault"
            /\ ret_nns' = <<>>

\* lines 271-280, then the loop test
BeginCall(q, k, b) ==
    /\ qu' = q
    /\ numnn' = k
    /\ budget' = b
    /\ nchecks' = Max(b, k)
    /\ npops' = 0
    /\ LoopTestOrReturn(InitialDescents(1, q, EmptySearch), k, Max(b, k))

\* a caller's first search on the built index
Search ==
    /\ pc = "built"
    /\ \E q \in Queries, k \in 1..MaxK, b \in BudgetSet(N_) : BeginCall(q, k, b)
    /\ prev' = prev
    /\ UNCHANGED <<inds, nodes, trees_, stack>>
    /\ UNCHANGED buildVars

\* the caller repeats the search with a larger budget
SearchAgain ==
    /\ pc = "done"
    /\ ~prev.valid
    /\ \E b \in {c \in BudgetSet(N_) : c > budget} : BeginCall(qu, numnn, b)
    /\ prev' = [budget |-> budget, top1 |-> ret_nns[1].dsq, valid |-> TRUE]
    /\ UNCHANGED <<inds, nodes, trees_, stack>>
    /\ UNCHANGED buildVars

\* lines 285-288 on the entry pr, then the loop test
PopAndSearch(pr, rest) ==
    /\ npops' = npops + 1
    /\ LoopTestOrReturn(
            NodeSearch(pr.node, pr.bound, qu,
                [pri |-> rest, nns |-> nns, seen |-> seen, hist |-> hist]),
            numnn, nchecks)

\* one iteration of the drain loop
DrainPop ==
    /\ pc = "drain"
    /\ pri_branch # <<>>
    /\ LET i == TopIndex(pri_branch)
       IN  PopAndSearch(pri_branch[i], RemoveAt(pri_branch, i))
    /\ UNCHANGED <<qu, numnn, budget, nchecks, prev>>
    /\ UNCHANGED <<inds, nodes, trees_, stack>>
    /\ UNCHANGED buildVars

\* lines 285-286 on an empty queue: top() and pop() are undefined.  The
\* process faults, or top() yields an entry left in the queue's storage.
DrainPopEmpty ==
    /\ pc = "drain"
    /\ pri_branch = <<>>
    /\ \/ /\ pc' = "fault"
          /\ UNCHANGED <<pri_branch, nns, seen, hist, npops, ret_nns>>
       \/ \E pr \in hist : PopAndSearch(pr, <<>>)
    /\ UNCHANGED <<qu, numnn, budget, nchecks, prev>>
    /\ UNCHANGED <<inds, nodes, trees_, stack>>
    /\ UNCHANGED buildVars

----------------------------------------------------------------------------
Init ==
    /\ \E n \in NSet, h \in [Dims -> Vals], t \in 1..MaxTrees :
        /\ N_ = n
        /\ pnts = Dataset(n, h)
        /\ ntrees = t
        /\ inds = [i \in 0..(n - 1) |-> i]
    /\ nodes = <<>>
    /\ trees_ = <<>>
    /\ stack = <<>>
    /\ pc = "build"
    /\ qu = [d \in Dims |-> 0]
    /\ numnn = 0
    /\ budget = 0
    /\ nchecks = 0
    /\ pri_branch = <<>>
    /\ nns = <<>>
    /\ seen = [i \in 0..(N_ - 1) |-> FALSE]
    /\ ret_nns = <<>>
    /\ hist = {}
    /\ npops = 0
    /\ prev = NoCall

Next ==
    \/ NewTree
    \/ ConstructLeaf
    \/ SplitPoints
    \/ BuildDone
    \/ Search
    \/ SearchAgain
    \/ DrainPop
    \/ DrainPopEmpty

Spec == Init /\ [][Next]_vars

----------------------------------------------------------------------------
(* Derived views of the heap and of the search state *)
RECURSIVE LeafSeq(_)
LeafSeq(a) ==
    IF nodes[a].kind = "leaf" THEN nodes[a].indices
    ELSE IF nodes[a].kind = "internal"
         THEN LeafSeq(nodes[a].left) \o LeafSeq(nodes[a].right)
         ELSE <<>>

SubtreeIds(a) == LET s == LeafSeq(a) IN {s[i] : i \in 1..Len(s)}

RECURSIVE Reach(_)
Reach(a) ==
    IF nodes[a].kind = "internal"
    THEN {a} \cup Reach(nodes[a].left) \cup Reach(nodes[a].right)
    ELSE {a}

TreeComplete(t) == t < Len(trees_) \/ stack = <<>>

Internals == {a \in 1..Len(nodes) : nodes[a].kind = "internal"}

Below(a, id) == RatLess(<<pnts[id][nodes[a].disc_dim], 1>>, nodes[a].disc)

OrderedSplit(a) ==
    /\ LET ls == SubtreeIds(nodes[a].left) IN \A id \in ls : Below(a, id)
    /\ LET rs == SubtreeIds(nodes[a].right) IN \A id \in rs : ~Below(a, id)

OneSided(a) ==
    LET ids == SubtreeIds(a)
    IN  \/ \A id \in ids : Below(a, id)
        \/ \A id \in ids : ~Below(a, id)

IdsOf(nn) == {nn[i].id : i \in 1..Len(nn)}
NoDupIds(nn) == \A i, j \in 1..Len(nn) : i # j => nn[i].id # nn[j].id
Count(nn, e) == Cardinality({i \in 1..Len(nn) : nn[i] = e})
RangeOf(nn) == {nn[i] : i \in 1..Len(nn)}
AllIds == 0..(N_ - 1)

----------------------------------------------------------------------------
(* Properties *)

\* C1: a search completes and returns exactly min(k, N) results, for every
\* k >= 1 and every budget.
C1_ReturnsMinKN ==
    /\ pc # "fault"
    /\ pc = "done" => Len(ret_nns) = Min(numnn, N_)

\* C2: within one call no point identifier is scored twice: neither the
\* candidate list nor the result list holds an identifier twice.
C2_NoDuplicateIds == NoDupIds(nns) /\ NoDupIds(ret_nns)

\* C3: with budget nchecks = N and k <= N the returned squared distances are
\* the k smallest squared distances over all N points.
C3_ExhaustiveIsExact ==
    (pc = "done" /\ budget = N_ /\ numnn <= N_) =>
        /\ Len(ret_nns) = numnn
        /\ \A i \in 1..Len(ret_nns) :
            LET v == ret_nns[i].dsq
            IN  /\ Cardinality({id \in AllIds : Dist(qu, id) < v}) < i
                /\ i <= Cardinality({id \in AllIds : Dist(qu, id) <= v})

\* C4: the results are sorted ascending by squared distance and are the k
\* smallest entries of the candidate list: no candidate left out is strictly
\* closer than a returned one.
C4_SortedTopK ==
    pc = "done" =>
        /\ Len(ret_nns) = numnn
        /\ \A i, j \in 1..Len(ret_nns) : i < j => ret_nns[i].dsq <= ret_nns[j].dsq
        /\ \A e \in RangeOf(ret_nns) : Count(ret_nns, e) <= Count(nns, e)
        /\ \A e \in RangeOf(nns) : Count(nns, e) > Count(ret_nns, e) =>
                \A r \in RangeOf(ret_nns) : r.dsq <= e.dsq

C4_Witness ==
    /\ pc = "done"
    /\ numnn > 1
    /\ npops > 0
    /\ Len(nns) > numnn
    /\ \E i \in 1..Len(nns) : nns[i].dsq < nns[1].dsq
    /\ ret_nns[1].dsq < ret_nns[numnn].dsq

\* C5 as claimed: the number of distinct points scored by a call is at most
\* max(nchecks, k).
C5_BudgetCeiling ==
    pc = "done" => Cardinality(IdsOf(nns)) <= Max(budget, numnn)

\* C5 as amended: every tree's first descent scores a whole leaf and the
\* budget is tested only between leaves, so the candidate list holds at most
\* max(ntrees * 14, max(nchecks, k) + 13) entries.
C5_BoundedOvershoot ==
    Len(nns) <= Max(ntrees * leaf_max_points, nchecks + leaf_max_points - 1)

C5_Witness ==
    /\ pc = "done"
    /\ npops > 0
    /\ budget > numnn
    /\ Cardinality(IdsOf(nns)) > Max(budget, numnn)

\* C6: on one index, for one query and one k, the top-1 squared distance
\* returned with a larger budget is at most the one returned with a smaller.
C6_MonotoneInBudget ==
    (pc = "done" /\ prev.valid /\ prev.budget < budget) =>
        ret_nns[1].dsq <= prev.top1

C6_Witness ==
    /\ pc = "done"
    /\ prev.valid
    /\ prev.budget < budget
    /\ ret_nns[1].dsq < prev.top1

\* C7: in every tree of the forest the leaves partition the identifiers
\* 0..N-1 into blocks of 1 to 14: none is missing, duplicated, and no leaf
\* is empty.
C7_LeavesPartition ==
    \A t \in 1..Len(trees_) : TreeComplete(t) =>
        /\ LET s == LeafSeq(trees_[t])
           IN  /\ Len(s) = N_
               /\ {s[i] : i \in 1..Len(s)} = AllIds
        /\ \A a \in Reach(trees_[t]) : nodes[a].kind = "leaf" =>
                /\ Len(nodes[a].indices) >= 1
                /\ Len(nodes[a].indices) <= leaf_max_points

C7_Witness ==
    /\ pc = "built"
    /\ Len(trees_) > 1
    /\ inds # [i \in AllIds |-> i]
    /\ \E a \in Reach(trees_[Len(trees_)]) :
            /\ nodes[a].kind = "internal"
            /\ OneSided(a)
    /\ \E a \in Reach(trees_[Len(trees_)]) :
            /\ nodes[a].kind = "internal"
            /\ ~OneSided(a)

\* C8 as claimed: at every internal node the left subtree's points are
\* strictly below the threshold and the right subtree's are at or above it.
C8_SplitOrder == \A a \in Internals : OrderedSplit(a)

\* C8 as amended: the order holds at every internal node whose points lie on
\* both sides of its threshold; a node whose points all lie on one side was
\* cut at N/2 and both its subtrees hold points of that side.
C8_SplitOrderUnlessOneSided ==
    \A a \in Internals : OrderedSplit(a) \/ OneSided(a)

C8_Witness ==
    /\ pc = "built"
    /\ \E a \in Internals :
            /\ OneSided(a)
            /\ ~OrderedSplit(a)
    /\ \E a \in Internals :
            /\ ~OneSided(a)
            /\ OrderedSplit(a)
            /\ nodes[nodes[a].left].kind = "internal"

\* C9: the bound of every frontier entry is a lower bound of the squared
\* distance from the query to every point stored below the entry's node.
C9_ValidLowerBound ==
    \A i \in 1..Len(pri_branch) :
        \A id \in SubtreeIds(pri_branch[i].node) :
            ~RatLess(<<Dist(qu, id), 1>>, pri_branch[i].bound)

\* C10: with max(k, nchecks) <= N the drain loop never reads an empty queue
\* and ends with at least k candidates.
C10_QueueNeverEmpty ==
    Max(numnn, budget) <= N_ =>
        /\ pc # "fault"
        /\ pc = "drain" => pri_branch # <<>>
        /\ pc = "done" => Len(nns) >= numnn

C10_Witness ==
    /\ pc = "done"
    /\ Max(numnn, budget) <= N_
    /\ npops > 1
    /\ pri_branch = <<>>
    /\ Len(nns) = nchecks

====
